---- MODULE Spec2Model ----
(***************************************************************************)
(* A model of src/src/process/resample_workflow.py: the result aggregator  *)
(* (_combine_interpolation_results), the two resampling strategies         *)
(* (interpolate_original_space, interpolate_t1_space) behind               *)
(* FunctionalRun.interpolate, and the per-run orchestrator                 *)
(* (workflow_single_run) with its existence-keyed output files.            *)
(*                                                                         *)
(* Coordinates are one-dimensional homogeneous row vectors <<x, 1>> over   *)
(* the integers modulo Modulus; an affine transform is the 2x2 matrix      *)
(* <<<<a, b>>, <<0, 1>>>>.  Matrix product, transpose and inverse are      *)
(* computed, so that `coords @ M.T` and `A.T @ inv(B).T` mean what they    *)
(* mean in the source.                                                     *)
(***************************************************************************)
EXTENDS Integers, Sequences, FiniteSets, TLC

\* ---------------------------------------------------------------- bounds
Modulus == 3        \* size of the coordinate axis (points 0 .. Modulus-1)
MaxFrames == 2      \* most volumes (and most warp files) of one run
MaxPreExisting == 2 \* most output files present before the first invocation
MaxInvocations == 2 \* most invocations of workflow_single_run for one run

\* ------------------------------------------------------- matrix algebra
Axis == 0 .. (Modulus - 1)

\* The units modulo Modulus: the linear parts an invertible transform may have.
Units == {a \in Axis : \E c \in Axis : (a * c) % Modulus = 1}

ModInv(a) == CHOOSE c \in Axis : (a * c) % Modulus = 1

\* The homogeneous matrix of x |-> a*x + b.
Aff(a, b) == <<<<a % Modulus, b % Modulus>>, <<0, 1>>>>

\* M.T
Transpose(M) == <<<<M[1][1], M[2][1]>>, <<M[1][2], M[2][2]>>>>

\* A @ B
MatMul(A, B) ==
    [i \in 1..2 |-> [j \in 1..2 |->
        (A[i][1] * B[1][j] + A[i][2] * B[2][j]) % Modulus]]

\* np.linalg.inv(M): the adjugate over the determinant.
MatInv(M) ==
    LET det == (M[1][1] * M[2][2] - M[1][2] * M[2][1]) % Modulus
        di  == ModInv(det)
    IN  <<<<(di * M[2][2]) % Modulus, (di * (0 - M[1][2])) % Modulus>>,
          <<(di * (0 - M[2][1])) % Modulus, (di * M[1][1]) % Modulus>>>>

\* One row vector times a matrix.
RowMul(r, M) ==
    [j \in 1..2 |-> (r[1] * M[1][j] + r[2] * M[2][j]) % Modulus]

\* coords @ M for an array of row vectors: a new array.
CoordsMatMul(coords, M) == [k \in DOMAIN coords |-> RowMul(coords[k], M)]

\* ------------------------------------------------------ result aggregator
\* A per-frame interpolation result is a record with a field kind:
\*   "ndarray" (shape, val), "dict" (map: region key -> ndarray), "other".
RegionKeys == {"A", "B"}

IsArray(r) == r.kind = "ndarray"
IsDict(r) == r.kind = "dict"

Pending == [status |-> "pending"]
Ok(v) == [status |-> "ok", value |-> v]
Raise(e) == [status |-> "error", exc |-> e]

\* np.asanyarray(x).shape: an ndarray keeps its shape, any other object
\* becomes a 0-d object array.
CoercedShape(r) == IF IsArray(r) THEN r.shape ELSE <<>>

\* The element np.stack places at one index: an ndarray's values, or the
\* object itself.
CoercedVal(r) == IF IsArray(r) THEN r.val ELSE r

\* np_stack with a fault: the frames stacked in reverse order.
np_stack_reversed(arrs) ==
    IF \E k \in DOMAIN arrs : CoercedShape(arrs[k]) # CoercedShape(arrs[1])
    THEN Raise("ValueError")
    ELSE Ok([kind |-> "ndarray",
             shape |-> <<Len(arrs)>> \o CoercedShape(arrs[1]),
             val |-> [k \in DOMAIN arrs |-> CoercedVal(arrs[Len(arrs) + 1 - k])]])

\* np.stack(arrs, axis=0) of a non-empty list: every element is coerced to an
\* array, all shapes must agree, the result has a new leading axis.
np_stack(arrs) ==
    IF \E k \in DOMAIN arrs : CoercedShape(arrs[k]) # CoercedShape(arrs[1])
    THEN Raise("ValueError")
    ELSE Ok([kind |-> "ndarray",
             shape |-> <<Len(arrs)>> \o CoercedShape(arrs[1]),
             val |-> [k \in DOMAIN arrs |-> CoercedVal(arrs[k])]])

\* interp[key] for a key of the first result: what it raises, or "none".
LookupError(r, key) ==
    IF IsDict(r) THEN (IF key \in DOMAIN r.map THEN "none" ELSE "KeyError")
    ELSE IF IsArray(r) THEN "IndexError"
    ELSE "TypeError"

\* The dict branch: the keys are those of interps[0]; every frame is indexed
\* by every such key, in frame order; then each key's list is stacked.
CombineDict(interps) ==
    LET keys == DOMAIN interps[1].map
        bad  == {k \in DOMAIN interps :
                    \E key \in keys : LookupError(interps[k], key) # "none"}
    IN  IF bad # {}
        THEN LET k == CHOOSE x \in bad : \A y \in bad : x <= y
                 key == CHOOSE x \in keys : LookupError(interps[k], x) # "none"
             IN  Raise(LookupError(interps[k], key))
        ELSE LET stacked == [key \in keys |->
                     np_stack([k \in DOMAIN interps |-> interps[k].map[key]])]
             IN  IF \E key \in keys : stacked[key].status = "error"
                 THEN Raise("ValueError")
                 ELSE Ok([kind |-> "dict",
                          map |-> [key \in keys |-> stacked[key].value]])

\* _combine_interpolation_results(interps)
_combine_interpolation_results(interps) ==
    IF Len(interps) = 0 THEN Raise("IndexError")
    ELSE IF IsArray(interps[1]) THEN np_stack(interps)
    ELSE IF IsDict(interps[1]) THEN CombineDict(interps)
    ELSE Raise("ValueError")

\* ------------------------------------------------ collaborators' contracts
\* compute_warp(cc, warp, warp_affine) of .resample: the query coordinates are
\* taken into the field's own voxel space by the inverse of its affine and the
\* displacement stored there is read.  A field is a function Axis -> Axis.
compute_warp(cc, field, warp_affine) ==
    [k \in DOMAIN cc |->
        field[RowMul(cc[k], Transpose(MatInv(warp_affine)))[1]]]

\* interpolate(data, cc, fill, kwargs) of .resample: one value per query
\* coordinate, read from the grid at that voxel.  A volume is a function
\* Axis -> value.
interpolate(data, cc) ==
    [kind |-> "ndarray", shape |-> <<Len(cc)>>,
     val |-> [k \in DOMAIN cc |-> data[cc[k][1]]]]

\* extract_data_in_mni(x, mm, cortex) of .volume: the interpolation result split
\* by region, one array per region key of aseg_mapping.
extract_data_in_mni(x) ==
    [kind |-> "dict",
     map |-> [key \in RegionKeys |->
                [kind |-> "ndarray", shape |-> x.shape, val |-> x.val]]]

\* The surface callback of Subject.get_surface_data, x.mean(axis=1) @ xform:
\* one array made of the whole interpolation result.
surface_callback(x) ==
    [kind |-> "ndarray", shape |-> <<1>>, val |-> <<x.val>>]

\* `if callback is not None: interp = callback(interp)`
ApplyCallback(cb, x) ==
    CASE cb = "none" -> x
      [] cb = "surface" -> surface_callback(x)
      [] cb = "region" -> extract_data_in_mni(x)

\* ----------------------------------------------------------------- state
VARIABLES
    cIn,        \* the list handed to _combine_interpolation_results
    cOut,       \* its outcome; status "pending" before the call
    workers,    \* the run workers of this fan-out
    run,        \* per worker: the files of its run's working directory
    heap,       \* the coordinate arrays, by address
    pc,         \* per worker: where it is
    call,       \* per worker: the arguments of its interpolate call
    coordsRef,  \* per worker: the array the name `coords` is bound to
    frame,      \* per worker: the frames processed so far
    interps,    \* per worker: the list `interps`
    result,     \* per worker: what the call returned or raised
    wfRun,      \* workflow_single_run: the files of the run's working directory
    combinations, \* its argument `combinations`
    fs,         \* the output files under out_dir: "absent", "old" or "new"
    dirs,       \* the output directories that exist
    wpc,        \* where the invocation is
    pos,        \* the iteration of the current loop, from 1
    interpCalls, \* func_run.interpolate calls made by this invocation
    written,    \* the paths this invocation has saved to
    overwritten, \* those of them that held a file when they were saved to
    invocation, \* which invocation this is, from 1
    prevOk      \* whether the invocation before this one ran to its end

combineVars == <<cIn, cOut>>
interpVars == <<workers, run, heap, pc, call, coordsRef, frame, interps, result>>
workflowVars == <<wfRun, combinations, fs, dirs, wpc, pos, interpCalls, written,
                  overwritten, invocation, prevOk>>

vars == <<combineVars, interpVars, workflowVars>>

\* --------------------------------------------------------------- Subject
\* The coordinate grids of .volume (mni_coords, canonical_volume_coords).
GridCoords == <<<<0, 1>>, <<1, 1>>>>

\* `cc[..., :3] += diff`: the displacement is added to the spatial column only.
AddDisplacement(cc, diff) ==
    [k \in DOMAIN cc |-> <<(cc[k][1] + diff[k]) % Modulus, cc[k][2]>>]

\* Displacement fields: a constant shift, and one that grows with position.
ShiftField == [x \in Axis |-> 1]
RampField == [x \in Axis |-> x]

\* Subject.prepare_mni: self.mni_coords.
prepare_mni ==
    LET xyz1 == GridCoords
        diff == compute_warp(xyz1, ShiftField, Aff(1, 0))
    IN  CoordsMatMul(AddDisplacement(xyz1, diff), Transpose(Aff(Modulus - 1, 0)))

\* Subject.prepare_canonical: self.canonical_coords.
prepare_canonical == CoordsMatMul(GridCoords, Transpose(Aff(1, 1)))

\* ----------------------------------------------------------- addresses
Workers == {"w1", "w2"}

SubjAddr(name) == [own |-> "subj", name |-> name]
LocalAddr(w, name) == [own |-> w, name |-> name]
Addrs == {SubjAddr(n) : n \in {"mni_coords", "canonical_coords"}}
            \cup {LocalAddr(w, n) : w \in Workers, n \in {"coords", "cc"}}

\* Subject.get_volume_coords(use_mni): the cached array itself, not a copy.
get_volume_coords(use_mni) ==
    IF use_mni THEN SubjAddr("mni_coords") ELSE SubjAddr("canonical_coords")

\* ------------------------------------------------------ FunctionalRun
\* The files of one run's working directory.  nData and nWarp are the
\* numbers of vol*.nii.gz and vol*_xfm.nii.gz files; the transforms and the
\* fields are what the loaders return for them.
RegChoices == {Aff(1, 1), Aff(Modulus - 1, 0)}
HmcArrays == {[i \in 1..MaxFrames |-> Aff(1, i)],
              [i \in 1..MaxFrames |-> Aff(Modulus - 1, i)]}
AffineArrays == {[i \in 1..MaxFrames |-> Aff(Modulus - 1, i + 1)],
                 [i \in 1..MaxFrames |-> Aff(1, 2 * i)]}
WarpArrays == {[i \in 1..MaxFrames |-> IF i % 2 = 1 THEN ShiftField ELSE RampField],
               [i \in 1..MaxFrames |-> IF i % 2 = 1 THEN RampField ELSE ShiftField]}

RunConfigs ==
    [nData : 0..MaxFrames, nWarp : 0..MaxFrames, ref_to_t1 : RegChoices,
     hmc : HmcArrays, nii_affines : AffineArrays, warp_data : WarpArrays]

\* nii_data[i] of bold_split, and nii_t1[i] of the merged T1-space file: the
\* value at voxel v names its frame, its voxel and its file.
nii_data(i) == [v \in Axis |-> <<i, v, 1>>]
nii_t1(i) == [v \in Axis |-> <<i, v, 2>>]
nii_t1_affine == Aff(Modulus - 1, 1)
warp_affine(i) == Aff(1, i)

\* AssertWarpCount with a fault: the counts are not compared.
AssertWarpCountNone(nData, nWarp) == TRUE

\* `if len(warp_fns): assert len(nii_fns) == len(warp_fns)`
AssertWarpCount(nData, nWarp) == (nWarp > 0) => (nData = nWarp)

\* self.warp_data after __init__: set only `if len(warp_fns)`.
HasWarpAttr(r) == r.nWarp > 0

\* ---------------------------------------------------- one-step resampling
\* FrameMatrix with a fault: the two factors swapped.
FrameMatrixSwapped(hmc_i, affine) ==
    MatMul(Transpose(MatInv(affine)), Transpose(hmc_i))

\* `hmc[i].T @ np.linalg.inv(affine).T`
FrameMatrix(hmc_i, affine) ==
    MatMul(Transpose(hmc_i), Transpose(MatInv(affine)))

\* CopyAddr with a fault: `cc = coords`, an alias and no copy.
CopyAddrAlias(w, src) == src

\* `cc = coords.copy()`: the address of the copy, a fresh array.
CopyAddr(w, src) == LocalAddr(w, "cc")

\* `coords = coords @ M`: the address of the product, a fresh array.
MatMulAddr(w, src) == LocalAddr(w, "coords")

\* The arguments warp_data, warp_affines as interpolate_original_space
\* receives them: the run's lists, or the default None.
WarpArg(r) ==
    IF HasWarpAttr(r) THEN [none |-> FALSE, n |-> r.nWarp] ELSE [none |-> TRUE, n |-> 0]

\* ------------------------------------------------- the interpolation machine
CallKinds ==
    [coords : {TRUE, FALSE},           \* get_volume_coords(use_mni)
     onestep : {TRUE, FALSE},
     callback : {"none", "surface", "region"},
     via : {"method", "function"}]     \* FunctionalRun.interpolate, or the
                                       \* module function called directly
NoCall == [coords |-> TRUE, onestep |-> TRUE, callback |-> "none", via |-> "method"]
DefaultRun ==
    [nData |-> 0, nWarp |-> 0, ref_to_t1 |-> Aff(1, 1),
     hmc |-> [i \in 1..MaxFrames |-> Aff(1, i)],
     nii_affines |-> [i \in 1..MaxFrames |-> Aff(1, 2 * i)],
     warp_data |-> [i \in 1..MaxFrames |-> IF i % 2 = 1 THEN ShiftField ELSE RampField]]

InitHeap ==
    [a \in Addrs |->
        IF a = SubjAddr("mni_coords") THEN prepare_mni
        ELSE IF a = SubjAddr("canonical_coords") THEN prepare_canonical
        ELSE <<>>]

InterpStart ==
    /\ heap = InitHeap
    /\ pc = [w \in Workers |-> "new"]
    /\ call = [w \in Workers |-> NoCall]
    /\ coordsRef = [w \in Workers |-> SubjAddr("mni_coords")]
    /\ frame = [w \in Workers |-> 0]
    /\ interps = [w \in Workers |-> <<>>]
    /\ result = [w \in Workers |-> Pending]

\* The interpolation machine at rest, for the specifications that do not use it.
InterpIdle ==
    /\ workers = {}
    /\ run = [w \in Workers |-> DefaultRun]
    /\ InterpStart

\* FunctionalRun.__init__
Construct(w) ==
    /\ pc[w] = "new"
    /\ pc' = [pc EXCEPT ![w] =
                IF AssertWarpCount(run[w].nData, run[w].nWarp)
                THEN "ready" ELSE "rejected"]
    /\ UNCHANGED <<workers, run, heap, call, coordsRef, frame, interps, result>>
    /\ UNCHANGED <<combineVars, workflowVars>>

\* FunctionalRun.interpolate(coords, onestep, callback=cb), up to the frame
\* loop: the AttributeError of a run without self.warp_data, line 147 of
\* interpolate_original_space, or line 167 of interpolate_t1_space.
Call(w, c) ==
    /\ pc[w] = "ready"
    /\ c.via = "function" => c.onestep
    /\ call' = [call EXCEPT ![w] = c]
    /\ frame' = [frame EXCEPT ![w] = 0]
    /\ interps' = [interps EXCEPT ![w] = <<>>]
    /\ LET arg == get_volume_coords(c.coords)
       IN  IF c.onestep /\ c.via = "method" /\ ~HasWarpAttr(run[w])
           THEN /\ pc' = [pc EXCEPT ![w] = "raised"]
                /\ result' = [result EXCEPT ![w] = Raise("AttributeError")]
                /\ UNCHANGED <<heap, coordsRef>>
           ELSE LET M == IF c.onestep
                         THEN Transpose(run[w].ref_to_t1)
                         ELSE MatInv(Transpose(nii_t1_affine))
                    dst == MatMulAddr(w, arg)
                IN  /\ heap' = [heap EXCEPT ![dst] = CoordsMatMul(heap[arg], M)]
                    /\ coordsRef' = [coordsRef EXCEPT ![w] = dst]
                    /\ pc' = [pc EXCEPT ![w] = "loop"]
                    /\ UNCHANGED result
    /\ UNCHANGED <<workers, run>>
    /\ UNCHANGED <<combineVars, workflowVars>>

\* One pass of the loop of interpolate_original_space (lines 149-159).
FrameOneStep(w) ==
    /\ pc[w] = "loop"
    /\ call[w].onestep
    /\ frame[w] < run[w].nData
    /\ LET i == frame[w] + 1
           r == run[w]
           warp == WarpArg(r)
           src == coordsRef[w]
           cc == CopyAddr(w, src)
           h1 == [heap EXCEPT ![cc] = heap[src]]
       IN  IF ~warp.none /\ i > warp.n
           THEN /\ pc' = [pc EXCEPT ![w] = "raised"]
                /\ result' = [result EXCEPT ![w] = Raise("IndexError")]
                /\ heap' = h1
                /\ UNCHANGED <<frame, interps>>
           ELSE LET h2 == IF warp.none THEN h1
                          ELSE [h1 EXCEPT ![cc] = AddDisplacement(h1[cc],
                                    compute_warp(h1[cc], r.warp_data[i], warp_affine(i)))]
                    vox == CoordsMatMul(h2[cc], FrameMatrix(r.hmc[i], r.nii_affines[i]))
                    interp == interpolate(nii_data(i), vox)
                IN  /\ heap' = h2
                    /\ interps' = [interps EXCEPT ![w] =
                                     Append(@, ApplyCallback(call[w].callback, interp))]
                    /\ frame' = [frame EXCEPT ![w] = i]
                    /\ UNCHANGED <<pc, result>>
    /\ UNCHANGED <<workers, run, call, coordsRef>>
    /\ UNCHANGED <<combineVars, workflowVars>>

\* One pass of the loop of interpolate_t1_space (lines 169-174).  The merged
\* T1-space file holds one volume per volume of the run.
FrameTwoStep(w) ==
    /\ pc[w] = "loop"
    /\ ~call[w].onestep
    /\ frame[w] < run[w].nData
    /\ LET i == frame[w] + 1
           interp == interpolate(nii_t1(i), heap[coordsRef[w]])
       IN  /\ interps' = [interps EXCEPT ![w] =
                            Append(@, ApplyCallback(call[w].callback, interp))]
           /\ frame' = [frame EXCEPT ![w] = i]
    /\ UNCHANGED <<workers, run, heap, pc, call, coordsRef, result>>
    /\ UNCHANGED <<combineVars, workflowVars>>

\* `interps = _combine_interpolation_results(interps)` and the return.
Finish(w) ==
    /\ pc[w] = "loop"
    /\ frame[w] = run[w].nData
    /\ result' = [result EXCEPT ![w] = _combine_interpolation_results(interps[w])]
    /\ pc' = [pc EXCEPT ![w] =
                IF _combine_interpolation_results(interps[w]).status = "ok"
                THEN "returned" ELSE "raised"]
    /\ UNCHANGED <<workers, run, heap, call, coordsRef, frame, interps>>
    /\ UNCHANGED <<combineVars, workflowVars>>

\* The caller takes the result; the call's local arrays are garbage.
Return(w) ==
    /\ pc[w] \in {"returned", "raised"}
    /\ pc' = [pc EXCEPT ![w] = "ready"]
    /\ result' = [result EXCEPT ![w] = Pending]
    /\ interps' = [interps EXCEPT ![w] = <<>>]
    /\ frame' = [frame EXCEPT ![w] = 0]
    /\ call' = [call EXCEPT ![w] = NoCall]
    /\ coordsRef' = [coordsRef EXCEPT ![w] = SubjAddr("mni_coords")]
    /\ heap' = [a \in Addrs |-> IF a.own = w THEN <<>> ELSE heap[a]]
    /\ UNCHANGED <<workers, run>>
    /\ UNCHANGED <<combineVars, workflowVars>>

DoConstruct == \E w \in workers : Construct(w)
DoCall == \E w \in workers : \E c \in CallKinds : Call(w, c)
DoFrameOneStep == \E w \in workers : FrameOneStep(w)
DoFrameTwoStep == \E w \in workers : FrameTwoStep(w)
DoFinish == \E w \in workers : Finish(w)
DoReturn == \E w \in workers : Return(w)

NextInterp ==
    \/ DoConstruct
    \/ DoCall
    \/ DoFrameOneStep
    \/ DoFrameTwoStep
    \/ DoFinish
    \/ DoReturn

\* ------------------------------------- the two strategies, as functions
\* interpolate_original_space(nii_data, nii_affines, coords, ref_to_t1, hmc,
\* warp_data, warp_affines, ..., callback), called with the arrays of run r.
interpolate_original_space(r, coords, warp, cb) ==
    LET base == CoordsMatMul(coords, Transpose(r.ref_to_t1))
        Frame(i) ==
            LET cc == IF warp.none THEN base
                      ELSE AddDisplacement(base,
                               compute_warp(base, r.warp_data[i], warp_affine(i)))
                vox == CoordsMatMul(cc, FrameMatrix(r.hmc[i], r.nii_affines[i]))
            IN  ApplyCallback(cb, interpolate(nii_data(i), vox))
    IN  IF \E i \in 1..r.nData : ~warp.none /\ i > warp.n
        THEN Raise("IndexError")
        ELSE _combine_interpolation_results([i \in 1..r.nData |-> Frame(i)])

\* interpolate_t1_space(nii_t1, nii_t1_affine, coords, ..., callback)
interpolate_t1_space(r, coords, cb) ==
    LET cc == CoordsMatMul(coords, MatInv(Transpose(nii_t1_affine)))
    IN  _combine_interpolation_results(
            [i \in 1..r.nData |-> ApplyCallback(cb, interpolate(nii_t1(i), cc))])

\* FunctionalRun.interpolate(coords, onestep, callback=cb)
FunctionalRun_interpolate(r, coords, onestep, cb) ==
    IF onestep
    THEN IF HasWarpAttr(r)
         THEN interpolate_original_space(r, coords, WarpArg(r), cb)
         ELSE Raise("AttributeError")
    ELSE interpolate_t1_space(r, coords, cb)

\* ------------------------------------------------- workflow_single_run
\* The decoded combinations (space, onestep, proj, resample).
OneStepCombo == [space |-> "onavg-ico32", onestep |-> TRUE, proj |-> "pial", resample |-> "area"]
TwoStepCombo == [space |-> "onavg-ico32", onestep |-> FALSE, proj |-> "pial", resample |-> "area"]
CombinationLists == {<<OneStepCombo>>, <<TwoStepCombo>>, <<TwoStepCombo, OneStepCombo>>}

Hemis == <<"l", "r">>
Resolutions == <<"mni-2mm", "mni-4mm">>     \* `for mm in [2, 4]`
LinearTag == <<"1step", "linear", "overlap">>
FmriprepTag == <<"1step", "fmriprep", "overlap">>

\* out_fn of a surface combination, and of one region of a template group.
SurfacePath(c, lr) ==
    [space |-> c.space, region |-> <<lr, "cerebrum">>,
     tag |-> <<IF c.onestep THEN "1step" ELSE "2step", c.proj, c.resample>>]
TemplatePath(space, roi, tag) == [space |-> space, region |-> <<roi, "roi">>, tag |-> tag]

SurfacePaths == {SurfacePath(c, lr) : c \in {OneStepCombo, TwoStepCombo}, lr \in {"l", "r"}}
TemplatePaths ==
    {TemplatePath(sp, roi, tag) :
        sp \in {"mni-2mm", "mni-4mm"}, roi \in RegionKeys, tag \in {LinearTag, FmriprepTag}}
Paths == SurfacePaths \cup TemplatePaths

\* The out_fns of one template group: one per region of aseg_mapping.
GroupPaths(space, tag) == {TemplatePath(space, roi, tag) : roi \in RegionKeys}

\* Exists with a fault: no file is ever found.
ExistsNever(files, p) == FALSE

\* os.path.exists(out_fn)
Exists(files, p) == files[p] # "absent"

\* GroupDone with a fault: `any` for `all`, one region file is enough.
GroupDoneAny(files, group) == \E p \in group : Exists(files, p)

\* `all([os.path.exists(_) for _ in out_fns])`
GroupDone(files, group) == \A p \in group : Exists(files, p)

\* SavedPaths with a fault: the files are saved whatever the outcome.
SavedPathsAlways(outcome, paths) == paths

\* The paths np.save reaches: it follows the computation, so an exception
\* raised there leaves it unreached.
SavedPaths(outcome, paths) == IF outcome.status = "ok" THEN paths ELSE {}

\* Subject.get_surface_data(lr, ...): the hemisphere's coordinates through
\* the lta, and the callback.
SurfaceCoords(lr) ==
    CoordsMatMul(IF lr = "l" THEN GridCoords ELSE <<<<1, 1>>, <<0, 1>>>>,
                 Transpose(Aff(1, 1)))

WorkflowConfigs ==
    {r \in [nData : 0..MaxFrames, nWarp : 0..MaxFrames, nStd : 0..MaxFrames,
            wfDir : {TRUE, FALSE}] : r.nStd \in {0, r.nData}}

\* The FunctionalRun of the workflow's run.
FuncRun == [DefaultRun EXCEPT !.nData = wfRun.nData, !.nWarp = wfRun.nWarp]

WorkflowStart ==
    /\ wpc = "idle"
    /\ pos = 1
    /\ interpCalls = 0
    /\ written = {}
    /\ overwritten = {}
    /\ invocation = 1
    /\ prevOk = FALSE

\* The orchestrator at rest, for the specifications that do not use it.
WorkflowIdle ==
    /\ wfRun = [nData |-> 0, nWarp |-> 0, nStd |-> 0, wfDir |-> FALSE]
    /\ combinations = <<OneStepCombo>>
    /\ fs = [p \in Paths |-> "absent"]
    /\ dirs = {}
    /\ wpc = "off"
    /\ pos = 1
    /\ interpCalls = 0
    /\ written = {}
    /\ overwritten = {}
    /\ invocation = 1
    /\ prevOk = FALSE

InitWorkflow ==
    /\ wfRun \in WorkflowConfigs
    /\ combinations \in CombinationLists
    /\ \E old \in SUBSET Paths :
            /\ Cardinality(old) <= MaxPreExisting
            /\ fs = [p \in Paths |-> IF p \in old THEN "old" ELSE "absent"]
            /\ dirs = old
    /\ WorkflowStart
    /\ InterpIdle
    /\ cIn = <<>>
    /\ cOut = Pending

\* Lines 182-185: the working directory must exist, then FunctionalRun(wf_dir).
Start ==
    /\ wpc = "idle"
    /\ wpc' = IF wfRun.wfDir /\ AssertWarpCount(wfRun.nData, wfRun.nWarp)
              THEN "surface" ELSE "failed"
    /\ pos' = 1
    /\ UNCHANGED <<wfRun, combinations, fs, dirs, interpCalls, written, overwritten,
                   invocation, prevOk>>
    /\ UNCHANGED <<combineVars, interpVars>>

\* One pass of the loops of lines 187-210: hemisphere by hemisphere, every
\* combination.
SurfaceIter ==
    /\ wpc = "surface"
    /\ LET nc == Len(combinations)
           lr == Hemis[((pos - 1) \div nc) + 1]
           c == combinations[((pos - 1) % nc) + 1]
           out_fn == SurfacePath(c, lr)
           next == IF pos = 2 * nc THEN "linear" ELSE "surface"
           npos == IF pos = 2 * nc THEN 1 ELSE pos + 1
       IN  IF Exists(fs, out_fn)
           THEN /\ wpc' = next
                /\ pos' = npos
                /\ UNCHANGED <<fs, dirs, interpCalls, written, overwritten>>
           ELSE LET resampled == FunctionalRun_interpolate(
                                    FuncRun, SurfaceCoords(lr), c.onestep, "surface")
                    saved == SavedPaths(resampled, {out_fn})
                IN  /\ dirs' = dirs \cup {out_fn}
                    /\ interpCalls' = interpCalls + 1
                    /\ fs' = [p \in Paths |-> IF p \in saved THEN "new" ELSE fs[p]]
                    /\ written' = written \cup saved
                    /\ overwritten' = overwritten \cup {p \in saved : Exists(fs, p)}
                    /\ wpc' = IF resampled.status = "ok" THEN next ELSE "failed"
                    /\ pos' = IF resampled.status = "ok" THEN npos ELSE pos
    /\ UNCHANGED <<wfRun, combinations, invocation, prevOk>>
    /\ UNCHANGED <<combineVars, interpVars>>

\* The region files a stacked template result is saved to: one per key of
\* `output.items()`, which only a mapping has.
ItemPaths(output, space, tag) ==
    IF output.status = "ok" /\ IsDict(output.value)
    THEN {TemplatePath(space, roi, tag) : roi \in DOMAIN output.value.map}
    ELSE {}

ItemsOk(output) == output.status = "ok" /\ IsDict(output.value)

\* One pass of the loop of lines 212-229: the one-step template group of one
\* resolution.
LinearIter ==
    /\ wpc = "linear"
    /\ LET space == Resolutions[pos]
           out_fns == GroupPaths(space, LinearTag)
           next == IF pos = Len(Resolutions) THEN "fmriprep" ELSE "linear"
           npos == IF pos = Len(Resolutions) THEN 1 ELSE pos + 1
       IN  IF GroupDone(fs, out_fns)
           THEN /\ wpc' = next
                /\ pos' = npos
                /\ UNCHANGED <<fs, dirs, interpCalls, written, overwritten>>
           ELSE LET output == FunctionalRun_interpolate(
                                 FuncRun, heap[get_volume_coords(TRUE)], TRUE, "region")
                    saved == SavedPaths(output, ItemPaths(output, space, LinearTag))
                IN  /\ dirs' = dirs \cup out_fns \cup saved
                    /\ interpCalls' = interpCalls + 1
                    /\ fs' = [p \in Paths |-> IF p \in saved THEN "new" ELSE fs[p]]
                    /\ written' = written \cup saved
                    /\ overwritten' = overwritten \cup {p \in saved : Exists(fs, p)}
                    /\ wpc' = IF ItemsOk(output) THEN next ELSE "failed"
                    /\ pos' = IF ItemsOk(output) THEN npos ELSE pos
    /\ UNCHANGED <<wfRun, combinations, invocation, prevOk>>
    /\ UNCHANGED <<combineVars, interpVars>>

\* One pass of the loop of lines 232-253: the template group of one
\* resolution taken from the volumes already resampled to the template, one
\* extract_data_in_mni result per input file.
FmriprepIter ==
    /\ wpc = "fmriprep"
    /\ LET space == Resolutions[pos]
           out_fns == GroupPaths(space, FmriprepTag)
           next == IF pos = Len(Resolutions) THEN "done" ELSE "fmriprep"
           npos == IF pos = Len(Resolutions) THEN 1 ELSE pos + 1
       IN  IF GroupDone(fs, out_fns)
           THEN /\ wpc' = next
                /\ pos' = npos
                /\ UNCHANGED <<fs, dirs, written, overwritten>>
           ELSE LET d(i) == [kind |-> "ndarray", shape |-> <<1>>, val |-> <<<<i, 0, 3>>>>]
                    output == _combine_interpolation_results(
                                  [i \in 1..wfRun.nStd |-> extract_data_in_mni(d(i))])
                    saved == SavedPaths(output, ItemPaths(output, space, FmriprepTag))
                IN  /\ dirs' = dirs \cup out_fns
                    /\ fs' = [p \in Paths |-> IF p \in saved THEN "new" ELSE fs[p]]
                    /\ written' = written \cup saved
                    /\ overwritten' = overwritten \cup {p \in saved : Exists(fs, p)}
                    /\ wpc' = IF ItemsOk(output) THEN next ELSE "failed"
                    /\ pos' = IF ItemsOk(output) THEN npos ELSE pos
    /\ UNCHANGED <<wfRun, combinations, interpCalls, invocation, prevOk>>
    /\ UNCHANGED <<combineVars, interpVars>>

\* workflow_single_run is called again with the same arguments.
Reinvoke ==
    /\ wpc \in {"done", "failed"}
    /\ invocation < MaxInvocations
    /\ invocation' = invocation + 1
    /\ prevOk' = (wpc = "done")
    /\ wpc' = "idle"
    /\ pos' = 1
    /\ interpCalls' = 0
    /\ written' = {}
    /\ overwritten' = {}
    /\ UNCHANGED <<wfRun, combinations, fs, dirs>>
    /\ UNCHANGED <<combineVars, interpVars>>

NextWorkflow ==
    \/ Start
    \/ SurfaceIter
    \/ LinearIter
    \/ FmriprepIter
    \/ Reinvoke

SpecWorkflow == InitWorkflow /\ [][NextWorkflow]_vars

\* -------------------------------- the interpolation specifications
\* One run, any working directory.
InitInterp ==
    /\ workers = {"w1"}
    /\ run \in {f \in [Workers -> RunConfigs] : f["w2"] = DefaultRun}
    /\ InterpStart
    /\ cIn = <<>>
    /\ cOut = Pending
    /\ WorkflowIdle

Spec == InitInterp /\ [][NextInterp]_vars

\* Two run workers of one subject, sharing its cached coordinate sets.
FanoutConfigs ==
    {r \in RunConfigs :
        /\ r.nData \in {1, MaxFrames}
        /\ r.nWarp \in {0, r.nData}
        /\ r.ref_to_t1 = Aff(1, 1)
        /\ r.hmc = DefaultRun.hmc
        /\ r.nii_affines = DefaultRun.nii_affines
        /\ r.warp_data = DefaultRun.warp_data}

InitFanout ==
    /\ workers = Workers
    /\ run \in [Workers -> FanoutConfigs]
    /\ InterpStart
    /\ cIn = <<>>
    /\ cOut = Pending
    /\ WorkflowIdle

SpecFanout == InitFanout /\ [][NextInterp]_vars

\* ------------------------------------------------- aggregator, as a machine
\* The per-frame results the aggregator is tried on.  The values of frame k
\* are tagged with k, so that a stacked result shows which frame each entry
\* came from.
ArrayOf(k, n) ==
    [kind |-> "ndarray", shape |-> <<n>>, val |-> [j \in 1..n |-> <<k, j>>]]

Scalar0d(k) == [kind |-> "ndarray", shape |-> <<>>, val |-> <<k, 0>>]

DictOf(k, keys) ==
    [kind |-> "dict",
     map |-> [key \in keys |->
                [kind |-> "ndarray", shape |-> <<1>>, val |-> <<<<k, key>>>>]]]

OtherOf(k) == [kind |-> "other", frame |-> k]

FrameResults(k) ==
    {ArrayOf(k, 1), ArrayOf(k, 2), Scalar0d(k), OtherOf(k)}
        \cup {DictOf(k, keys) : keys \in SUBSET RegionKeys}

ResultLists ==
    UNION {{l \in [1..n -> UNION {FrameResults(k) : k \in 1..n}] :
                \A k \in 1..n : l[k] \in FrameResults(k)} : n \in 0..MaxFrames}

InitCombine ==
    /\ cIn \in ResultLists
    /\ cOut = Pending
    /\ InterpIdle
    /\ WorkflowIdle

Combine ==
    /\ cOut = Pending
    /\ cOut' = _combine_interpolation_results(cIn)
    /\ UNCHANGED <<cIn, interpVars, workflowVars>>

NextCombine == Combine

SpecCombine == InitCombine /\ [][NextCombine]_vars

\* ================================================================ claims
\* What the transforms do to one point, column-vector convention: M applied
\* to the point x is the spatial entry of M . [x, 1]^T.
ApplyPoint(M, x) == (M[1][1] * x + M[1][2]) % Modulus

\* The coordinate set a call was given, as the Subject cached it.
CallerCoords(c) == IF c.coords THEN prepare_mni ELSE prepare_canonical

\* The displacement frame i's field adds to the point x (none without fields).
Displaced(r, i, x) ==
    IF r.nWarp = 0 THEN x
    ELSE (x + r.warp_data[i][ApplyPoint(MatInv(warp_affine(i)), x)]) % Modulus

\* The voxel of frame i at which the target point x is sampled when the
\* registration matrix reg and the motion-correction matrix mc are applied in
\* this order: reg, frame i's displacement, mc, inverse voxel affine.
SampledVoxel(r, i, x, reg, mc) ==
    ApplyPoint(MatInv(r.nii_affines[i]), ApplyPoint(mc, Displaced(r, i, ApplyPoint(reg, x))))

\* Frame i's result for call c when every point is sampled as SampledVoxel says.
OneStepFrame(r, c, i, reg, mc) ==
    ApplyCallback(c.callback,
        [kind |-> "ndarray", shape |-> <<Len(CallerCoords(c))>>,
         val |-> [j \in DOMAIN CallerCoords(c) |->
                    <<i, SampledVoxel(r, i, CallerCoords(c)[j][1], reg, mc), 1>>]])

TwoStepFrame(c, i) ==
    ApplyCallback(c.callback,
        [kind |-> "ndarray", shape |-> <<Len(CallerCoords(c))>>,
         val |-> [j \in DOMAIN CallerCoords(c) |->
                    <<i, ApplyPoint(MatInv(nii_t1_affine), CallerCoords(c)[j][1]), 2>>]])

ExpectedFrame(r, c, i) ==
    IF c.onestep THEN OneStepFrame(r, c, i, r.ref_to_t1, r.hmc[i]) ELSE TwoStepFrame(c, i)

InOneStep(w) == pc[w] \in {"loop", "returned"} /\ call[w].onestep

C2_StackedByFrameIndex ==
    \A w \in workers : (call[w].callback # "region" /\ run[w].nData >= 1) =>
        /\ pc[w] = "returned" =>
              /\ result[w].status = "ok"
              /\ result[w].value.kind = "ndarray"
              /\ result[w].value.shape[1] = run[w].nData
              /\ Len(result[w].value.val) = run[w].nData
              /\ \A i \in 1..run[w].nData :
                    result[w].value.val[i] = ExpectedFrame(run[w], call[w], i).val
        /\ pc[w] = "raised" => frame[w] < run[w].nData

\* C2, witness: a run of at least two frames has returned a stacked array.
C2_Witness ==
    \E w \in workers :
        /\ pc[w] = "returned"
        /\ call[w].callback # "region"
        /\ run[w].nData >= 2
        /\ result[w].value.shape[1] = run[w].nData

\* C3, as claimed: a list of mappings in which some frame's key set differs
\* from another's ends in an error.
C3_KeyMismatchIsFatal ==
    (/\ cOut.status # "pending"
     /\ \A k \in DOMAIN cIn : IsDict(cIn[k])
     /\ \E j, k \in DOMAIN cIn : DOMAIN cIn[j].map # DOMAIN cIn[k].map)
        => cOut.status = "error"

\* C5, as claimed: for a run without warp fields, one-step resampling through
\* FunctionalRun.interpolate completes without error, one result per frame.
C5_NoWarpOneStepCompletes ==
    \A w \in workers :
        (/\ pc[w] \in {"returned", "raised"}
         /\ run[w].nWarp = 0
         /\ run[w].nData >= 1
         /\ call[w].onestep
         /\ call[w].via = "method")
            => /\ result[w].status = "ok"
               /\ Len(interps[w]) = run[w].nData

\* C9, as claimed: a list that is neither all arrays nor all mappings ends in
\* an error.
C9_MixedTypesAreFatal ==
    (/\ cOut.status # "pending"
     /\ Len(cIn) >= 1
     /\ ~(\A k \in DOMAIN cIn : IsArray(cIn[k]))
     /\ ~(\A k \in DOMAIN cIn : IsDict(cIn[k])))
        => cOut.status = "error"

\* The base coordinates of a worker's call: the caller's set through the
\* call's one matrix.
ExpectedBase(r, c) ==
    LET M == IF c.onestep THEN r.ref_to_t1 ELSE MatInv(nii_t1_affine)
    IN  [j \in DOMAIN CallerCoords(c) |->
            <<ApplyPoint(M, CallerCoords(c)[j][1]), CallerCoords(c)[j][2]>>]

\* C10: whatever the workers have done, the Subject's cached canonical and
\* template coordinate sets hold the values they had before fan-out, and the
\* base coordinates of a call in its frame loop are those computed before the
\* first frame: a frame's displacement reaches no other frame and no caller.
C10_CoordinatesUntouched ==
    /\ heap[SubjAddr("mni_coords")] = prepare_mni
    /\ heap[SubjAddr("canonical_coords")] = prepare_canonical
    /\ \A w \in workers : pc[w] = "loop" =>
            heap[coordsRef[w]] = ExpectedBase(run[w], call[w])

\* C10, witness: two workers are in their frame loops at once, one of them
\* one-step on a warped run with a frame already displaced, on the same
\* cached coordinate set.
C10_Witness ==
    \E w, v \in workers :
        /\ w # v
        /\ pc[w] = "loop" /\ pc[v] = "loop"
        /\ call[w].coords = call[v].coords
        /\ call[w].onestep /\ run[w].nWarp > 0 /\ frame[w] >= 1
        /\ frame[v] >= 1
        /\ heap[LocalAddr(w, "cc")] # heap[coordsRef[w]]

\* C4: a run whose warp fields are present in a number other than that of
\* its data volumes never gets past the construction of its FunctionalRun:
\* the invocation fails with no interpolation call made and no output saved.
C4_MismatchRejectedFirst ==
    (wfRun.nWarp > 0 /\ wfRun.nWarp # wfRun.nData) =>
        /\ wpc \in {"idle", "failed"}
        /\ interpCalls = 0
        /\ written = {}

\* C4, witness: such a run, its working directory present, has been rejected
\* while some output was still missing.
C4_Witness ==
    /\ wfRun.nWarp > 0 /\ wfRun.nWarp # wfRun.nData
    /\ wfRun.wfDir
    /\ wpc = "failed"
    /\ \E p \in Paths : fs[p] = "absent"

\* C6: an invocation that follows one that ran to its end makes no
\* interpolation call and saves no file.
C6_Idempotent ==
    (invocation >= 2 /\ prevOk) => (interpCalls = 0 /\ written = {})

\* C6, witness: the second invocation has run to its end after a first one
\* that saved outputs.
C6_Witness ==
    /\ invocation >= 2
    /\ prevOk
    /\ wpc = "done"
    /\ \E p \in SurfacePaths : fs[p] = "new"
    /\ \E p \in TemplatePaths : fs[p] = "new"

\* C7, as claimed: within one invocation no interpolation call follows a
\* save, and an invocation that has failed has saved nothing.
C7_NoWriteBeforeAllResampling ==
    [][invocation' = invocation =>
          /\ written # {} => interpCalls' = interpCalls
          /\ wpc' = "failed" => written' = {}]_vars

\* C7, amended: every output file is saved only after the resampling and
\* aggregation that produce it have ended without error: the step that fails
\* saves nothing and changes no file, so an invocation that fails part-way
\* leaves the outputs of the steps completed before the failure, and no other.
C7_WriteFollowsOwnResampling ==
    [][invocation' = invocation =>
          /\ written' # written => wpc' # "failed"
          /\ wpc' = "failed" => (written' = written /\ fs' = fs)]_vars

\* C7, witness: an invocation has failed after saving outputs.
C7_Witness == wpc = "failed" /\ written # {} /\ interpCalls >= 2

\* C8, as claimed: no invocation saves to a path that held a file.
C8_NeverOverwrites == overwritten = {}

\* The template group a path belongs to.
GroupOf(p) == GroupPaths(p.space, p.tag)

\* The template group the current step considers.
CurrentGroup ==
    GroupPaths(Resolutions[pos], IF wpc = "linear" THEN LinearTag ELSE FmriprepTag)

\* C8, amended: a surface output path that holds a file is never saved to.  A
\* template (resolution, tag) group is skipped, and left as it is, only when
\* all its region files exist; when one is missing, the step that recomputes
\* the group saves every region file of it, those already present included.
C8_GroupIsTheCacheKey ==
    [][/\ \A p \in written' \ written :
             /\ p \in SurfacePaths => fs[p] = "absent"
             /\ p \in TemplatePaths => \E q \in GroupOf(p) : fs[q] = "absent"
       /\ (wpc \in {"linear", "fmriprep"} /\ wpc' # "failed"
              /\ \E q \in CurrentGroup : fs[q] = "absent")
            => CurrentGroup \subseteq (written' \ written)]_vars

\* C8, witness: a region file present before the invocation has been saved
\* over, with a surface file present before it left alone.
C8_Witness ==
    /\ overwritten # {}
    /\ \E p \in SurfacePaths : fs[p] = "old"

====
